---------------------------- MODULE Spec2Model ----------------------------
(***************************************************************************)
(* Model of src/my-sample.py: an MQTT device client that mints a JWT,      *)
(* connects once, subscribes to two inbound topics and then runs an        *)
(* unconditional publish loop which, on a fixed cadence, publishes the     *)
(* device state and rotates the JWT.                                       *)
(*                                                                         *)
(* main() is one sequential process whose position is pc; every statement  *)
(* of main that calls into the MQTT client, reads the clock, sleeps or     *)
(* tests the tick counter is one step.  The paho network thread started by *)
(* loop_start() is a second context: its steps deliver the callbacks       *)
(* registered at lines 200-204 and may interleave with main anywhere.      *)
(***************************************************************************)
EXTENDS Integers, Sequences, FiniteSets

(***************************************************************************)
(* Bounds of the model (not program constants).                            *)
(***************************************************************************)
MaxIter == 10
\* completed loop iterations explored (the loop itself is unbounded)

MaxNumMessages == 1
\* --num_messages is drawn from 0..MaxNumMessages

MaxSkew == 1
\* seconds the clock may advance between the two utcnow() reads of create_jwt

MaxClock == 3
\* create_jwt is exercised with the clock at 0..MaxClock

(***************************************************************************)
(* Program constants.                                                      *)
(***************************************************************************)
ValidityWindow == 3600
\* timedelta(minutes=60), in seconds

RotateEvery == 5
\* modulus of the state-publish / rotation test

EventSleep == 5

StateSleep == 10

SUBACK_FAILURE == 128

VARIABLES
  pc,          \* position of main()
  args,        \* parsed command line (parse_command_line_args)
  keyfile,     \* content of the file at args.key_file when it was last read
  caOk,        \* whether args.ca_certs can be loaded by tls_set
  clock,       \* wall clock, seconds
  i,           \* the tick counter of main()
  jsonpayload, \* the serialized telemetry record of the current iteration
  payloads,    \* number of get_payload() calls so far
  lastRc,      \* r.rc of the last telemetry publish (-1 before the first)
  jwtTmp,      \* value returned by create_jwt, not yet applied
  password,    \* authentication material stored in the client
  tlsSet,      \* client.tls_set done
  callbacks,   \* callbacks registered on the client
  loopRunning, \* background network loop started and not stopped
  connState,   \* transport session status
  mqtt_topic,  \* topic of the telemetry publishes
  state_topic, \* topic of the StateRecord publishes
  subs,        \* subscriptions requested on the client
  oplog,       \* history: the calls and steps of main(), in order
  errLogs,     \* history: number of "Error while publishing" lines written
  enqFailed,   \* history: some telemetry publish returned a failure code
  console      \* history: the last line written by a callback

vars == << pc, args, keyfile, caOk, clock, i, jsonpayload, payloads, lastRc,
           jwtTmp, password, tlsSet, callbacks, loopRunning, connState,
           mqtt_topic, state_topic, subs, oplog, errLogs, enqFailed, console >>

(***************************************************************************)
(* Values.                                                                 *)
(***************************************************************************)
Algorithms == {"RS256", "ES256"}

MessageTypes == {"event", "state"}

KeyKinds == {"rsa", "ec", "empty", "missing"}

\* algorithms the signing library behind jwt.encode implements (those among
\* them the model exercises)
LibraryAlgorithms == {"RS256", "ES256", "RS512"}

\* values a caller may hand to create_jwt or type after --algorithm
AnyAlgorithms == LibraryAlgorithms \cup {"XX999"}

NoCred == [iat |-> -1, exp |-> -1, aud |-> "-", alg |-> "-"]

NoTopic == [dev |-> "-", sub |-> "-"]

\* '/devices/{}/{}'.format(device_id, sub)
Topic(device_id, sub) == [dev |-> device_id, sub |-> sub]

NoPayload == [kind |-> "-", id |-> 0]

\* one call or step of main(), as recorded in oplog; the field it is filled
\* in when the entry is recorded
Entry(op, topic, qos, payload, val) ==
  [op |-> op, topic |-> topic, qos |-> qos, payload |-> payload, val |-> val,
   it |-> -1]

Step(op) == Entry(op, NoTopic, 0, NoPayload, 0)

\* return codes of client.publish: MQTT_ERR_SUCCESS, MQTT_ERR_NO_CONN
PublishRcs == {0, 4}

\* return codes delivered to on_connect: accepted, refused (bad credentials)
ConnAckRcs == {0, 4}

\* granted_qos[0] delivered to on_subscribe
GrantedQos == {0, 1, SUBACK_FAILURE}

(***************************************************************************)
(* create_jwt (lines 35-66).  now1 and now2 are the two utcnow() reads of  *)
(* lines 52 and 54.  open() (line 60) raises when the file is missing;     *)
(* jwt.encode (line 66) raises when it does not implement the algorithm,   *)
(* and otherwise when the key does not fit the algorithm.  create_jwt      *)
(* itself does not look at the algorithm.                                  *)
(***************************************************************************)
KeyReadable(key) == key # "missing"

SignOk(key, algorithm) ==
  \/ algorithm \in {"RS256", "RS512"} /\ key = "rsa"
  \/ algorithm = "ES256" /\ key = "ec"

\* the exception create_jwt ends with, "none" when it returns
MintError(key, algorithm) ==
  IF ~KeyReadable(key) THEN "IOError"
  ELSE IF algorithm \notin LibraryAlgorithms THEN "NotImplementedError"
  ELSE IF ~SignOk(key, algorithm) THEN "InvalidKeyError"
  ELSE "none"

create_jwt(project_id, key, algorithm, now1, now2) ==
  LET token == [iat |-> now1, exp |-> now2 + ValidityWindow,
                aud |-> project_id, alg |-> algorithm]
  IN  IF MintError(key, algorithm) = "none"
      THEN [ok |-> TRUE, jwt |-> token, err |-> "none"]
      ELSE [ok |-> FALSE, jwt |-> NoCred, err |-> MintError(key, algorithm)]

\* get_state (lines 102-105)
get_state == [kind |-> "state", id |-> 20201019]

\* get_payload (lines 283-299): a fresh record per call, identified by n
get_payload(n) == [kind |-> "telemetry", id |-> n]

\* the interval given in milliseconds
SleepSecs_m(message_type) == 1000 * (IF message_type = "event" THEN EventSleep ELSE StateSleep)

\* line 263: the argument of time.sleep
SleepSecs(message_type) == IF message_type = "event" THEN EventSleep ELSE StateSleep

\* the test taken on a multiple of five
FireCond_m(v) == v % RotateEvery = 0

\* line 267: the test applied to the counter after its increment
FireCond(v) == (v + 1) % RotateEvery = 0

\* the loop of line 245, bounded by the message count
WhileCond_m(v, num_messages) == v < num_messages

\* line 244: the loop condition `while True` (line 245 holds the bounded
\* loop the code no longer uses)
WhileCond(v, num_messages) == TRUE

\* line 258: `not r.is_published`.  is_published is a method of paho's
\* MQTTMessageInfo and is not called here, so the expression tests the
\* truth value of a bound method, which is true whatever rc is.
IsPublishedAttr(rc) == TRUE

(***************************************************************************)
(* Initial state: the process has parsed its arguments (lines 107-155,     *)
(* 171) and built the client object (lines 177-183); nothing is sent yet.  *)
(***************************************************************************)
Init ==
  /\ pc = "mint0"
  /\ args \in [ project_id   : {"proj"},
                device_id    : {"dev"},
                algorithm    : Algorithms,
                message_type : MessageTypes,
                num_messages : 0..MaxNumMessages ]
  /\ keyfile \in KeyKinds
  /\ caOk \in BOOLEAN
  /\ clock = 0
  /\ i = 0
  /\ jsonpayload = NoPayload
  /\ payloads = 0
  /\ lastRc = -1
  /\ jwtTmp = NoCred
  /\ password = NoCred
  /\ tlsSet = FALSE
  /\ callbacks = {}
  /\ loopRunning = FALSE
  /\ connState = "none"
  /\ mqtt_topic = NoTopic
  /\ state_topic = NoTopic
  /\ subs = {}
  /\ oplog = << >>
  /\ errLogs = 0
  /\ enqFailed = FALSE
  /\ console = "-"

\* record a step of main() together with the zero-based index of the loop
\* iteration it belongs to: the number of telemetry records built before it,
\* less one (-1 during startup)
Stamp(e, n) == [e EXCEPT !.it = n - 1]

Log(e) == oplog' = Append(oplog, Stamp(e, payloads))

(***************************************************************************)
(* main(): startup, lines 189-243.                                         *)
(***************************************************************************)
\* the exception of the first mint swallowed: main goes on without a token
MintInitial_m ==
  /\ pc = "mint0"
  /\ LET r == create_jwt(args.project_id, keyfile, args.algorithm, clock, clock)
     IN  /\ jwtTmp' = r.jwt
         /\ Log(Step(IF r.ok THEN "mint" ELSE "mint_raised"))
         /\ pc' = "apply0"
  /\ UNCHANGED << args, keyfile, caOk, clock, i, jsonpayload, payloads, lastRc,
                  password, tlsSet, callbacks, loopRunning, connState,
                  mqtt_topic, state_topic, subs, errLogs, enqFailed, console >>

\* lines 191-192: the argument create_jwt(...) is evaluated before the call
\* of username_pw_set; an exception leaves main (no handler anywhere).
MintInitial ==
  /\ pc = "mint0"
  /\ LET r == create_jwt(args.project_id, keyfile, args.algorithm, clock, clock)
     IN  IF r.ok
         THEN /\ jwtTmp' = r.jwt
              /\ Log(Step("mint"))
              /\ pc' = "apply0"
         ELSE /\ jwtTmp' = jwtTmp
              /\ Log(Step("mint_raised"))
              /\ pc' = "aborted"
  /\ UNCHANGED << args, keyfile, caOk, clock, i, jsonpayload, payloads, lastRc,
                  password, tlsSet, callbacks, loopRunning, connState,
                  mqtt_topic, state_topic, subs, errLogs, enqFailed, console >>

\* lines 189-192: client.username_pw_set(username='unused', password=<jwt>)
ApplyInitial ==
  /\ pc = "apply0"
  /\ password' = jwtTmp
  /\ Log(Step("apply"))
  /\ pc' = "tls"
  /\ UNCHANGED << args, keyfile, caOk, clock, i, jsonpayload, payloads, lastRc,
                  jwtTmp, tlsSet, callbacks, loopRunning, connState,
                  mqtt_topic, state_topic, subs, errLogs, enqFailed, console >>

\* lines 195-204: tls_set (raises when the CA bundle cannot be loaded) and
\* the registration of the five callbacks
TlsAndCallbacks ==
  /\ pc = "tls"
  /\ IF caOk
     THEN /\ tlsSet' = TRUE
          /\ callbacks' = {"on_connect", "on_publish", "on_disconnect",
                           "on_subscribe", "on_message"}
          /\ Log(Step("tls_set"))
          /\ pc' = "connect"
     ELSE /\ UNCHANGED << tlsSet, callbacks >>
          /\ Log(Step("tls_raised"))
          /\ pc' = "aborted"
  /\ UNCHANGED << args, keyfile, caOk, clock, i, jsonpayload, payloads, lastRc,
                  jwtTmp, password, loopRunning, connState,
                  mqtt_topic, state_topic, subs, errLogs, enqFailed, console >>

\* line 207: client.connect(host, port); raises when the bridge cannot be
\* reached, otherwise the CONNECT packet is out and CONNACK is pending
Connect ==
  /\ pc = "connect"
  /\ \E reached \in BOOLEAN :
       /\ Log(Step("connect"))
       /\ IF reached
          THEN /\ connState' = "connecting"
               /\ pc' = "loop_start"
          ELSE /\ connState' = connState
               /\ pc' = "aborted"
  /\ UNCHANGED << args, keyfile, caOk, clock, i, jsonpayload, payloads, lastRc,
                  jwtTmp, password, tlsSet, callbacks, loopRunning,
                  mqtt_topic, state_topic, subs, errLogs, enqFailed, console >>

\* the two topics chosen the wrong way round
LoopStart_m ==
  /\ pc = "loop_start"
  /\ loopRunning' = TRUE
  /\ Log(Step("loop_start"))
  /\ mqtt_topic' = Topic(args.device_id,
                         IF args.message_type = "state" THEN "events" ELSE "state")
  /\ pc' = "sub_config"
  /\ UNCHANGED << args, keyfile, caOk, clock, i, jsonpayload, payloads, lastRc,
                  jwtTmp, password, tlsSet, callbacks, connState,
                  state_topic, subs, errLogs, enqFailed, console >>

\* lines 210-225: client.loop_start(), then the choice of the publish topic
LoopStart ==
  /\ pc = "loop_start"
  /\ loopRunning' = TRUE
  /\ Log(Step("loop_start"))
  /\ mqtt_topic' = Topic(args.device_id,
                         IF args.message_type = "event" THEN "events" ELSE "state")
  /\ pc' = "sub_config"
  /\ UNCHANGED << args, keyfile, caOk, clock, i, jsonpayload, payloads, lastRc,
                  jwtTmp, password, tlsSet, callbacks, connState,
                  state_topic, subs, errLogs, enqFailed, console >>

\* lines 230-232: client.subscribe(mqtt_config_topic, qos=1)
SubscribeConfig ==
  /\ pc = "sub_config"
  /\ LET t == Topic(args.device_id, "config")
     IN  /\ subs' = subs \cup {[topic |-> t, qos |-> 1]}
         /\ Log(Entry("subscribe", t, 1, NoPayload, 0))
  /\ pc' = "sub_commands"
  /\ UNCHANGED << args, keyfile, caOk, clock, i, jsonpayload, payloads, lastRc,
                  jwtTmp, password, tlsSet, callbacks, loopRunning, connState,
                  mqtt_topic, state_topic, errLogs, enqFailed, console >>

\* the commands topic subscribed at QoS 1, as the comment of line 235 has it
SubscribeCommands_m ==
  /\ pc = "sub_commands"
  /\ LET t == Topic(args.device_id, "commands/#")
     IN  /\ subs' = subs \cup {[topic |-> t, qos |-> 1]}
         /\ Log(Entry("subscribe", t, 1, NoPayload, 0))
  /\ state_topic' = Topic(args.device_id, "state")
  /\ i' = 0
  /\ pc' = "while"
  /\ UNCHANGED << args, keyfile, caOk, clock, jsonpayload, payloads, lastRc,
                  jwtTmp, password, tlsSet, callbacks, loopRunning, connState,
                  mqtt_topic, errLogs, enqFailed, console >>

\* lines 234-243: client.subscribe(mqtt_command_topic, qos=0), state_topic
\* and i = 0
SubscribeCommands ==
  /\ pc = "sub_commands"
  /\ LET t == Topic(args.device_id, "commands/#")
     IN  /\ subs' = subs \cup {[topic |-> t, qos |-> 0]}
         /\ Log(Entry("subscribe", t, 0, NoPayload, 0))
  /\ state_topic' = Topic(args.device_id, "state")
  /\ i' = 0
  /\ pc' = "while"
  /\ UNCHANGED << args, keyfile, caOk, clock, jsonpayload, payloads, lastRc,
                  jwtTmp, password, tlsSet, callbacks, loopRunning, connState,
                  mqtt_topic, errLogs, enqFailed, console >>

(***************************************************************************)
(* main(): the loop, lines 244-276, and the code after it, lines 278-280.  *)
(***************************************************************************)
\* each iteration entered only once the session is up
While_m ==
  /\ pc = "while"
  /\ connState = "connected"
  /\ i < MaxIter
  /\ pc' = "publish"
  /\ UNCHANGED << args, keyfile, caOk, clock, i, jsonpayload, payloads, lastRc,
                  jwtTmp, password, tlsSet, callbacks, loopRunning, connState,
                  mqtt_topic, state_topic, subs, oplog, errLogs, enqFailed,
                  console >>

\* line 244: the loop test; when it fails, lines 279-280 run
\* (client.loop_stop() and the 'Finished.' line)
While ==
  /\ pc = "while"
  /\ IF WhileCond(i, args.num_messages)
     THEN /\ i < MaxIter
          /\ pc' = "publish"
          /\ UNCHANGED << loopRunning, oplog >>
     ELSE /\ loopRunning' = FALSE
          /\ oplog' = oplog \o << Stamp(Step("loop_stop"), payloads),
                                  Stamp(Step("finished"), payloads) >>
          /\ pc' = "stopped"
  /\ UNCHANGED << args, keyfile, caOk, clock, i, jsonpayload, payloads, lastRc,
                  jwtTmp, password, tlsSet, callbacks, connState,
                  mqtt_topic, state_topic, subs, errLogs, enqFailed, console >>

\* the record published to the state topic
PublishTelemetry_m ==
  /\ pc = "publish"
  /\ payloads' = payloads + 1
  /\ jsonpayload' = get_payload(payloads + 1)
  /\ \E rc \in PublishRcs :
       /\ lastRc' = rc
       /\ enqFailed' = (enqFailed \/ rc # 0)
       /\ errLogs' = IF ~IsPublishedAttr(rc) THEN errLogs + 1 ELSE errLogs
  /\ oplog' = Append(oplog, Stamp(Entry("publish", state_topic, 1,
                                        get_payload(payloads + 1), 0),
                                  payloads + 1))
  /\ pc' = "sleep"
  /\ UNCHANGED << args, keyfile, caOk, clock, i,
                  jwtTmp, password, tlsSet, callbacks, loopRunning, connState,
                  mqtt_topic, state_topic, subs, console >>

\* lines 247-260: build the record, publish it at QoS 1, test the handle
PublishTelemetry ==
  /\ pc = "publish"
  /\ payloads' = payloads + 1
  /\ jsonpayload' = get_payload(payloads + 1)
  /\ \E rc \in PublishRcs :
       /\ lastRc' = rc
       /\ enqFailed' = (enqFailed \/ rc # 0)
       /\ errLogs' = IF ~IsPublishedAttr(rc) THEN errLogs + 1 ELSE errLogs
  /\ oplog' = Append(oplog, Stamp(Entry("publish", mqtt_topic, 1,
                                        get_payload(payloads + 1), 0),
                                  payloads + 1))
  /\ pc' = "sleep"
  /\ UNCHANGED << args, keyfile, caOk, clock, i,
                  jwtTmp, password, tlsSet, callbacks, loopRunning, connState,
                  mqtt_topic, state_topic, subs, console >>

\* line 263: time.sleep(5 if event else 10)
Sleep ==
  /\ pc = "sleep"
  /\ clock' = clock + SleepSecs(args.message_type)
  /\ Log(Step("sleep"))
  /\ pc' = "incr"
  /\ UNCHANGED << args, keyfile, caOk, i, jsonpayload, payloads, lastRc,
                  jwtTmp, password, tlsSet, callbacks, loopRunning, connState,
                  mqtt_topic, state_topic, subs, errLogs, enqFailed, console >>

\* the test taken before the increment
IncrementTick_m ==
  /\ pc = "incr"
  /\ i' = i + 1
  /\ oplog' = oplog \o << Stamp(Step("cond"), payloads),
                          Stamp(Entry("incr", NoTopic, 0, NoPayload, i + 1), payloads) >>
  /\ pc' = IF FireCond(i) THEN "statepub" ELSE "while"
  /\ UNCHANGED << args, keyfile, caOk, clock, jsonpayload, payloads, lastRc,
                  jwtTmp, password, tlsSet, callbacks, loopRunning, connState,
                  mqtt_topic, state_topic, subs, errLogs, enqFailed, console >>

\* line 266: i += 1
IncrementTick ==
  /\ pc = "incr"
  /\ i' = i + 1
  /\ Log(Entry("incr", NoTopic, 0, NoPayload, i + 1))
  /\ pc' = "cond"
  /\ UNCHANGED << args, keyfile, caOk, clock, jsonpayload, payloads, lastRc,
                  jwtTmp, password, tlsSet, callbacks, loopRunning, connState,
                  mqtt_topic, state_topic, subs, errLogs, enqFailed, console >>

\* the counter started again after each rotation
TestRotate_m ==
  /\ pc = "cond"
  /\ Log(Step("cond"))
  /\ pc' = IF FireCond(i) THEN "statepub" ELSE "while"
  /\ i' = IF FireCond(i) THEN 0 ELSE i
  /\ UNCHANGED << args, keyfile, caOk, clock, jsonpayload, payloads, lastRc,
                  jwtTmp, password, tlsSet, callbacks, loopRunning, connState,
                  mqtt_topic, state_topic, subs, errLogs, enqFailed, console >>

\* line 267: if (i + 1) % 5 == 0
TestRotate ==
  /\ pc = "cond"
  /\ Log(Step("cond"))
  /\ pc' = IF FireCond(i) THEN "statepub" ELSE "while"
  /\ UNCHANGED << args, keyfile, caOk, clock, i, jsonpayload, payloads, lastRc,
                  jwtTmp, password, tlsSet, callbacks, loopRunning, connState,
                  mqtt_topic, state_topic, subs, errLogs, enqFailed, console >>

\* the credential rotated first, the StateRecord published after it
PublishState_m ==
  /\ pc = "statepub"
  /\ \E k \in KeyKinds :
       /\ keyfile' = k
       /\ LET r == create_jwt(args.project_id, k, args.algorithm, clock, clock)
          IN  IF r.ok
              THEN /\ jwtTmp' = r.jwt
                   /\ password' = r.jwt
                   /\ oplog' = oplog \o
                        << Stamp(Step("mint"), payloads),
                           Stamp(Step("apply"), payloads),
                           Stamp(Entry("publish", state_topic, 1, get_state, 0),
                                 payloads) >>
                   /\ pc' = "while"
              ELSE /\ UNCHANGED << jwtTmp, password >>
                   /\ Log(Step("mint_raised"))
                   /\ pc' = "aborted"
  /\ UNCHANGED << args, caOk, clock, i, jsonpayload, payloads, lastRc,
                  tlsSet, callbacks, loopRunning, connState,
                  mqtt_topic, state_topic, subs, errLogs, enqFailed, console >>

\* lines 268-269: client.publish(state_topic, json.dumps(get_state()), qos=1);
\* the returned handle is dropped
PublishState ==
  /\ pc = "statepub"
  /\ Log(Entry("publish", state_topic, 1, get_state, 0))
  /\ pc' = "mint"
  /\ UNCHANGED << args, keyfile, caOk, clock, i, jsonpayload, payloads, lastRc,
                  jwtTmp, password, tlsSet, callbacks, loopRunning, connState,
                  mqtt_topic, state_topic, subs, errLogs, enqFailed, console >>

\* lines 273-274: create_jwt(...) evaluated as the argument of the call of
\* line 271; an exception leaves the loop and main.  The key file is read
\* again on every call (lines 60-61) and may have been replaced on disk since
\* the last read: k is what the file holds now.
MintRotate ==
  /\ pc = "mint"
  /\ \E k \in KeyKinds :
       /\ keyfile' = k
       /\ LET r == create_jwt(args.project_id, k, args.algorithm, clock, clock)
          IN  IF r.ok
              THEN /\ jwtTmp' = r.jwt
                   /\ Log(Step("mint"))
                   /\ pc' = "apply"
              ELSE /\ jwtTmp' = jwtTmp
                   /\ Log(Step("mint_raised"))
                   /\ pc' = "aborted"
  /\ UNCHANGED << args, caOk, clock, i, jsonpayload, payloads, lastRc,
                  password, tlsSet, callbacks, loopRunning, connState,
                  mqtt_topic, state_topic, subs, errLogs, enqFailed, console >>

\* the rotation followed by a new connect, to put the token to use
ApplyRotate_m ==
  /\ pc = "apply"
  /\ password' = jwtTmp
  /\ oplog' = oplog \o << Stamp(Step("apply"), payloads),
                          Stamp(Step("connect"), payloads) >>
  /\ connState' = "connecting"
  /\ pc' = "while"
  /\ UNCHANGED << args, keyfile, caOk, clock, i, jsonpayload, payloads, lastRc,
                  jwtTmp, tlsSet, callbacks, loopRunning,
                  mqtt_topic, state_topic, subs, errLogs, enqFailed, console >>

\* lines 271-274: client.username_pw_set(username='unused', password=<jwt>)
ApplyRotate ==
  /\ pc = "apply"
  /\ password' = jwtTmp
  /\ Log(Step("apply"))
  /\ pc' = "while"
  /\ UNCHANGED << args, keyfile, caOk, clock, i, jsonpayload, payloads, lastRc,
                  jwtTmp, tlsSet, callbacks, loopRunning, connState,
                  mqtt_topic, state_topic, subs, errLogs, enqFailed, console >>

(***************************************************************************)
(* The network thread started by loop_start(): it delivers the callbacks   *)
(* of lines 74-100, each of which only writes a line.                      *)
(***************************************************************************)
NetAlive == loopRunning /\ pc # "aborted"

mainVars == << pc, args, keyfile, caOk, clock, i, jsonpayload, payloads, lastRc,
               jwtTmp, password, tlsSet, callbacks, loopRunning,
               mqtt_topic, state_topic, subs, oplog, errLogs, enqFailed >>

\* the two subscribes issued from on_connect, on every CONNACK
OnConnect_m ==
  /\ NetAlive
  /\ connState = "connecting"
  /\ "on_connect" \in callbacks
  /\ \E rc \in ConnAckRcs :
       connState' = IF rc = 0 THEN "connected" ELSE "refused"
  /\ console' = "on_connect"
  /\ subs' = subs \cup {[topic |-> Topic(args.device_id, "config"), qos |-> 1],
                        [topic |-> Topic(args.device_id, "commands/#"), qos |-> 0]}
  /\ oplog' = oplog \o
       << Stamp(Entry("subscribe", Topic(args.device_id, "config"), 1, NoPayload, 0),
                payloads),
          Stamp(Entry("subscribe", Topic(args.device_id, "commands/#"), 0, NoPayload, 0),
                payloads) >>
  /\ UNCHANGED << pc, args, keyfile, caOk, clock, i, jsonpayload, payloads, lastRc,
                  jwtTmp, password, tlsSet, callbacks, loopRunning,
                  mqtt_topic, state_topic, errLogs, enqFailed >>

\* lines 74-76: on_connect(rc), on CONNACK
OnConnect ==
  /\ NetAlive
  /\ connState = "connecting"
  /\ "on_connect" \in callbacks
  /\ \E rc \in ConnAckRcs :
       connState' = IF rc = 0 THEN "connected" ELSE "refused"
  /\ console' = "on_connect"
  /\ UNCHANGED mainVars

\* lines 79-81: on_disconnect(rc), when the session is lost
OnDisconnect ==
  /\ NetAlive
  /\ connState = "connected"
  /\ "on_disconnect" \in callbacks
  /\ connState' = "lost"
  /\ console' = "on_disconnect"
  /\ UNCHANGED mainVars

\* the network thread re-opens a lost or refused session by itself; it
\* sends the password stored in the client at that moment
Reconnect ==
  /\ NetAlive
  /\ connState \in {"lost", "refused"}
  /\ connState' = "connecting"
  /\ UNCHANGED console
  /\ UNCHANGED mainVars

\* lines 84-86: on_publish(mid), on PUBACK of a QoS 1 publish
OnPublish ==
  /\ NetAlive
  /\ connState = "connected"
  /\ "on_publish" \in callbacks
  /\ \E n \in 1..Len(oplog) : oplog[n].op = "publish"
  /\ console' = "on_publish"
  /\ UNCHANGED connState
  /\ UNCHANGED mainVars

\* lines 89-94: on_subscribe(mid, granted_qos), on SUBACK
OnSubscribe ==
  /\ NetAlive
  /\ connState = "connected"
  /\ "on_subscribe" \in callbacks
  /\ subs # {}
  /\ \E g \in GrantedQos :
       console' = IF g = SUBACK_FAILURE
                  THEN "Subscription failed."
                  ELSE "Subscribed"
  /\ UNCHANGED connState
  /\ UNCHANGED mainVars

\* lines 96-100: on_message(message), on an inbound message
OnMessage ==
  /\ NetAlive
  /\ connState = "connected"
  /\ "on_message" \in callbacks
  /\ subs # {}
  /\ console' = "Received message"
  /\ UNCHANGED connState
  /\ UNCHANGED mainVars

Next ==
  \/ MintInitial
  \/ ApplyInitial
  \/ TlsAndCallbacks
  \/ Connect
  \/ LoopStart
  \/ SubscribeConfig
  \/ SubscribeCommands
  \/ While
  \/ PublishTelemetry
  \/ Sleep
  \/ IncrementTick
  \/ TestRotate
  \/ PublishState
  \/ MintRotate
  \/ ApplyRotate
  \/ OnConnect
  \/ OnDisconnect
  \/ Reconnect
  \/ OnPublish
  \/ OnSubscribe
  \/ OnMessage

Spec == Init /\ [][Next]_vars

(***************************************************************************)
(* Observations on the history oplog.                                      *)
(***************************************************************************)
LoopPcs == {"while", "publish", "sleep", "incr", "cond", "statepub", "mint", "apply"}

\* what the n-th recorded step is: a publish is named by the kind of its payload
Kind(n) == IF oplog[n].op = "publish" THEN oplog[n].payload.kind ELSE oplog[n].op

At(k) == {n \in 1..Len(oplog) : Kind(n) = k}

TelemetryCount == Cardinality(At("telemetry"))

\* completed or begun iterations, by the last entry's stamp
LastIter == IF oplog = << >> THEN -1 ELSE oplog[Len(oplog)].it

StatePubCount == Cardinality(At("state"))

ConnectCalls == Cardinality(At("connect"))

\* a rotation is a username_pw_set issued after the first telemetry publish
Rotations == {n \in At("apply") : oplog[n].it >= 0}

RotationCount == Cardinality(Rotations)

\* zero-based index of the loop iteration the n-th step belongs to
IterOf(n) == oplog[n].it

FiredIters == {IterOf(n) : n \in At("state")}

RotatedIters == {IterOf(n) : n \in Rotations}

\* the counter value recorded by the increment of iteration k
IncrVal(k) == LET n == CHOOSE m \in At("incr") : IterOf(m) = k IN oplog[n].val

(***************************************************************************)
(* C1: in every iteration the state publish and the rotation happen        *)
(* exactly when the counter value v after the increment has                *)
(* (v + 1) mod 5 = 0; over the ten iterations 0..9 they happen in          *)
(* iterations 3 and 8 and in no other.                                     *)
(***************************************************************************)
C1_FiringRule ==
  LET fired   == FiredIters
      rotated == RotatedIters
      tele    == TelemetryCount
  IN  /\ \A k \in fired \cup rotated : (IncrVal(k) + 1) % 5 = 0
      /\ pc = "while" =>
           /\ \A k \in 0..(tele - 1) :
                /\ k \in fired <=> (IncrVal(k) + 1) % 5 = 0
                /\ k \in rotated <=> (IncrVal(k) + 1) % 5 = 0
           /\ tele = 10 => fired = {3, 8} /\ rotated = {3, 8}

C1_Witness ==
  /\ pc = "while"
  /\ TelemetryCount = 10
  /\ FiredIters = {3, 8}
  /\ IncrVal(3) = 4 /\ IncrVal(8) = 9

(***************************************************************************)
(* C2 as stated: in mode "event" the state publish and the rotation first  *)
(* happen in the 5th iteration; after 4 completed iterations there are 4   *)
(* telemetry publishes, 0 state publishes and 0 rotations, after 5 there   *)
(* are 5, 1 and 1.                                                         *)
(***************************************************************************)
C2_AsStated ==
  (args.message_type = "event" /\ pc = "while") =>
    /\ TelemetryCount = 4 => StatePubCount = 0 /\ RotationCount = 0
    /\ TelemetryCount = 5 => StatePubCount = 1 /\ RotationCount = 1
    /\ \A k \in FiredIters \cup RotatedIters : k >= 4

(***************************************************************************)
(* C2 amended: in mode "event" the state publish and the rotation first    *)
(* happen in the 4th iteration and then in every 5th iteration after it;   *)
(* after 3 completed iterations there are 3 telemetry publishes, 0 state   *)
(* publishes and 0 rotations, after 4 there are 4, 1 and 1, after 5 there  *)
(* are 5, 1 and 1.                                                         *)
(***************************************************************************)
C2_FirstFireFourth ==
  (args.message_type = "event" /\ pc = "while") =>
    /\ TelemetryCount = i
    /\ TelemetryCount = 3 => StatePubCount = 0 /\ RotationCount = 0
    /\ TelemetryCount = 4 => StatePubCount = 1 /\ RotationCount = 1
    /\ TelemetryCount = 5 => StatePubCount = 1 /\ RotationCount = 1
    /\ FiredIters = {k \in 0..(TelemetryCount - 1) : k % 5 = 3}
    /\ RotatedIters = FiredIters

C2_Witness ==
  /\ args.message_type = "event"
  /\ pc = "while"
  /\ TelemetryCount = 4
  /\ StatePubCount = 1
  /\ RotationCount = 1

(***************************************************************************)
(* C3: inside every iteration the telemetry publish comes before the       *)
(* increment of the counter, the increment before the test of the          *)
(* rotation condition, and the test before the state publish and the       *)
(* rotation; between two telemetry publishes there is one increment and    *)
(* one test.                                                               *)
(***************************************************************************)
C3_IntraIterationOrder ==
  \A n \in 1..Len(oplog) :
    /\ Kind(n) = "incr" => n > 2 /\ Kind(n - 1) = "sleep" /\ Kind(n - 2) = "telemetry"
    /\ Kind(n) = "cond" => Kind(n - 1) = "incr"
    /\ Kind(n) = "state" => Kind(n - 1) = "cond"
    /\ n \in Rotations => Kind(n - 1) = "mint" /\ Kind(n - 2) = "state"
    /\ (Kind(n) = "telemetry" /\ IterOf(n) > 0) =>
         \/ Kind(n - 1) = "cond"
         \/ n - 1 \in Rotations

C3_Witness ==
  /\ pc = "sleep"
  /\ TelemetryCount = 6
  /\ StatePubCount = 1
  /\ RotationCount = 1

(***************************************************************************)
(* C4: at startup the credential is minted and applied before connect is   *)
(* called, connect is called before either subscribe, the config topic is  *)
(* subscribed at QoS 1 and the commands wildcard topic at QoS 0, and both  *)
(* subscribes are issued before the first telemetry publish.               *)
(***************************************************************************)
ConfigSub == [topic |-> Topic(args.device_id, "config"), qos |-> 1]

CommandsSub == [topic |-> Topic(args.device_id, "commands/#"), qos |-> 0]

SubOf(n) == [topic |-> oplog[n].topic, qos |-> oplog[n].qos]

C5_CredentialFresh ==
  pc \in LoopPcs =>
    /\ password # NoCred
    /\ clock - password.iat < 3600
    /\ clock < password.exp

C5_Witness ==
  /\ args.message_type = "state"
  /\ pc = "mint"
  /\ RotationCount = 1
  /\ clock - password.iat = 50

(***************************************************************************)
(* C6 as stated: once the loop has been entered, no failure inside an      *)
(* iteration ends the run; the loop keeps running.                         *)
(***************************************************************************)
C6_NoHardFailureInLoop ==
  TelemetryCount >= 1 => pc \in LoopPcs

(***************************************************************************)
(* C7 as stated: a telemetry publish whose local enqueue failed is logged  *)
(* as a failure, one whose enqueue succeeded is not.                       *)
(***************************************************************************)
C7_EnqueueFailureLogged ==
  /\ enqFailed => errLogs >= 1
  /\ ~enqFailed => errLogs = 0

(***************************************************************************)
(* C8: when the first mint raises, the run ends there: connect,            *)
(* loop_start, subscribe and publish are never called and the loop is not  *)
(* entered.                                                                *)
(***************************************************************************)
InitialMintFailed == Len(oplog) >= 1 /\ oplog[1].op = "mint_raised"

C8_MintFailsBeforeNetwork ==
  /\ (\E n \in 1..Len(oplog) : oplog[n].op = "mint_raised" /\ oplog[n].it < 0)
       => InitialMintFailed
  /\ InitialMintFailed =>
       /\ pc = "aborted"
       /\ Len(oplog) = 1
       /\ connState = "none"
       /\ ~loopRunning
       /\ subs = {}
       /\ password = NoCred

C8_Witness ==
  /\ InitialMintFailed
  /\ keyfile = "empty"
  /\ pc = "aborted"

(***************************************************************************)
(* C9: main calls connect once per run; a rotation stores a new password   *)
(* and leaves the connection status, the subscriptions and the number of   *)
(* connect calls as they were.                                             *)
(***************************************************************************)
C9_SingleConnect ==
  [][ /\ pc' \in LoopPcs => ConnectCalls' = 1
      /\ ConnectCalls' <= 1
      /\ (pc = "apply" /\ pc' # "apply") =>
           /\ password' = jwtTmp
           /\ connState' = connState
           /\ subs' = subs
           /\ loopRunning' = loopRunning
           /\ ConnectCalls' = ConnectCalls ]_vars

C9_Witness ==
  /\ pc = "while"
  /\ RotationCount = 2
  /\ ConnectCalls = 1
  /\ password.iat > 0

MintInit ==
  /\ pc \in {"m_parse", "m_call"}
  /\ args \in [ project_id   : {"proj", "proj2"},
                device_id    : {"dev"},
                algorithm    : AnyAlgorithms,
                message_type : {"event"},
                num_messages : {0} ]
  /\ keyfile \in KeyKinds
  /\ caOk = TRUE
  /\ clock \in 0..MaxClock
  /\ i = 0
  /\ jsonpayload = NoPayload
  /\ payloads = 0
  /\ lastRc = -1
  /\ jwtTmp = NoCred
  /\ password = NoCred
  /\ tlsSet = FALSE
  /\ callbacks = {}
  /\ loopRunning = FALSE
  /\ connState = "none"
  /\ mqtt_topic = NoTopic
  /\ state_topic = NoTopic
  /\ subs = {}
  /\ oplog = << >>
  /\ errLogs = 0
  /\ enqFailed = FALSE
  /\ console = "-"

\* a parser that takes any --algorithm
ParseArgs_m ==
  /\ pc = "m_parse"
  /\ Log(Step("parse_args"))
  /\ pc' = "m_call"
  /\ UNCHANGED << args, keyfile, caOk, clock, i, jsonpayload, payloads, lastRc,
                  jwtTmp, password, tlsSet, callbacks, loopRunning, connState,
                  mqtt_topic, state_topic, subs, errLogs, enqFailed, console >>

\* lines 122-126 and 155: --algorithm has choices=('RS256', 'ES256'); any
\* other value makes parse_args leave the process with a usage error
ParseArgs ==
  /\ pc = "m_parse"
  /\ IF args.algorithm \in Algorithms
     THEN /\ Log(Step("parse_args"))
          /\ pc' = "m_call"
     ELSE /\ Log(Step("usage_error"))
          /\ pc' = "m_usage"
  /\ UNCHANGED << args, keyfile, caOk, clock, i, jsonpayload, payloads, lastRc,
                  jwtTmp, password, tlsSet, callbacks, loopRunning, connState,
                  mqtt_topic, state_topic, subs, errLogs, enqFailed, console >>

\* lines 35-66: one call of create_jwt; d is the time that passes between
\* the utcnow() of line 52 and that of line 54
MintCall ==
  /\ pc = "m_call"
  /\ \E d \in 0..MaxSkew :
       LET r == create_jwt(args.project_id, keyfile, args.algorithm,
                           clock, clock + d)
       IN  /\ clock' = clock + d
           /\ jwtTmp' = r.jwt
           /\ Log(Step(IF r.ok THEN "mint" ELSE r.err))
  /\ pc' = "m_done"
  /\ UNCHANGED << args, keyfile, caOk, i, jsonpayload, payloads, lastRc,
                  password, tlsSet, callbacks, loopRunning, connState,
                  mqtt_topic, state_topic, subs, errLogs, enqFailed, console >>

MintNext == ParseArgs \/ MintCall

MintSpec == MintInit /\ [][MintNext]_vars

(***************************************************************************)
(* C11 as stated: every credential create_jwt returns has                  *)
(* exp - iat = 3600 s and aud equal to the identity passed in, for both    *)
(* algorithms, also when the clock advances during the call.               *)
(***************************************************************************)
C11_WindowExact ==
  (pc = "m_done" /\ jwtTmp # NoCred /\ args.algorithm \in Algorithms) =>
    /\ jwtTmp.exp - jwtTmp.iat = 3600
    /\ jwtTmp.aud = args.project_id

(***************************************************************************)
(* C14 as stated: create_jwt ends with the unsupported-algorithm error,    *)
(* and returns no credential, for every algorithm outside {RS256, ES256}.  *)
(***************************************************************************)
LastOp == oplog[Len(oplog)].op

ViaCommandLine == Len(oplog) >= 1 /\ oplog[1].op \in {"parse_args", "usage_error"}

ModeTopic == Topic(args.device_id,
                   IF args.message_type = "event" THEN "events" ELSE "state")

C12_TickCounter ==
  [][ /\ pc \in {"mint0", "sub_commands"} => i = 0
      /\ i' # i => (pc = "incr" /\ i' = i + 1)
      /\ (pc = "incr" /\ pc' # "incr") => i' = i + 1
      /\ pc' = "while" =>
           /\ i' = TelemetryCount'
           /\ i' = Cardinality(At("incr"))'
      /\ \A n \in 1..Len(oplog') :
           /\ oplog'[n].op # "incr" => oplog'[n].val = 0
           /\ oplog'[n].op = "incr" => oplog'[n].val = oplog'[n].it + 1
           /\ Kind(n)' = "telemetry" =>
                oplog'[n] = Stamp(Entry("publish", ModeTopic, 1,
                                        get_payload(oplog'[n].it + 1), 0),
                                  oplog'[n].it + 1) ]_vars

C12_Witness ==
  /\ pc = "while"
  /\ i = 7
  /\ TelemetryCount = 7
  /\ RotationCount = 1

(***************************************************************************)
(* C13: a step of the network thread (a callback delivered, the session    *)
(* lost or re-opened) leaves every variable of main as it was: the tick    *)
(* counter, the topics, the stored and the pending credential, the         *)
(* subscriptions and the record of main's calls, so no callback publishes  *)
(* or subscribes; and a line written by a callback never comes with a step *)
(* of main.                                                                *)
(***************************************************************************)
C13_CallbacksLeaveScheduler ==
  [][ /\ pc' = pc =>
           /\ i' = i
           /\ mqtt_topic' = mqtt_topic
           /\ state_topic' = state_topic
           /\ password' = password
           /\ jwtTmp' = jwtTmp
           /\ subs' = subs
           /\ oplog' = oplog
           /\ clock' = clock
           /\ payloads' = payloads
           /\ jsonpayload' = jsonpayload
           /\ lastRc' = lastRc
           /\ loopRunning' = loopRunning
      /\ console' # console => pc' = pc ]_vars

C13_Witness ==
  /\ pc = "sleep"
  /\ TelemetryCount = 5
  /\ RotationCount = 1
  /\ console = "Received message"
  /\ connState = "connected"

(***************************************************************************)
(* C15: main never waits for a notification.  At every position from       *)
(* loop_start on, its next step can be taken whatever the session status   *)
(* is: with no CONNACK delivered yet, after on_connect reported a refusal, *)
(* and after on_disconnect.                                                *)
(***************************************************************************)
C15_LoopNotGated ==
  /\ pc = "loop_start" => ENABLED LoopStart
  /\ pc = "sub_config" => ENABLED SubscribeConfig
  /\ pc = "sub_commands" => ENABLED SubscribeCommands
  /\ (pc = "while" /\ i < MaxIter) => ENABLED While
  /\ pc = "publish" => ENABLED PublishTelemetry
  /\ pc = "sleep" => ENABLED Sleep
  /\ pc = "incr" => ENABLED IncrementTick
  /\ pc = "cond" => ENABLED TestRotate
  /\ pc = "statepub" => ENABLED PublishState
  /\ pc = "mint" => ENABLED MintRotate
  /\ pc = "apply" => ENABLED ApplyRotate

C15_Witness ==
  /\ pc = "sleep"
  /\ TelemetryCount = 2
  /\ connState = "refused"
  /\ console = "on_connect"

(***************************************************************************)
(* C16: the telemetry topic is set once, before the loop, from the mode    *)
(* (event: /devices/<device>/events, state: /devices/<device>/state) and   *)
(* keeps that value; every telemetry publish, in every iteration and after *)
(* any number of rotations, goes to it at QoS 1.                           *)
(***************************************************************************)
C16_TelemetryTopicFixed ==
  /\ mqtt_topic # NoTopic =>
       mqtt_topic = [dev |-> args.device_id,
                     sub |-> IF args.message_type = "event" THEN "events" ELSE "state"]
  /\ pc \in LoopPcs => mqtt_topic # NoTopic
  /\ \A t \in At("telemetry") :
       /\ oplog[t].topic = mqtt_topic
       /\ oplog[t].qos = 1

C16_Witness ==
  /\ args.message_type = "event"
  /\ pc = "sleep"
  /\ TelemetryCount = 6
  /\ RotationCount = 1
  /\ oplog[Len(oplog)].topic = Topic("dev", "events")

(***************************************************************************)
(* C19: in mode "state" the telemetry topic and the state topic are the    *)
(* same topic /devices/<device>/state, so every telemetry record, and in a *)
(* firing iteration the StateRecord too, is published to it; in mode       *)
(* "event", and only there, the two topics differ.                         *)
(***************************************************************************)
C19_StateModeSharesTopic ==
  LET st == [dev |-> args.device_id, sub |-> "state"]
  IN  /\ pc \in LoopPcs =>
           /\ state_topic = st
           /\ (args.message_type = "state") <=> (mqtt_topic = state_topic)
      /\ \A n \in At("state") : oplog[n].topic = st
      /\ \A t \in At("telemetry") :
           (args.message_type = "state") <=> (oplog[t].topic = st)

C19_Witness ==
  /\ args.message_type = "state"
  /\ pc = "mint"
  /\ StatePubCount = 1
  /\ oplog[Len(oplog)].topic = oplog[Len(oplog) - 4].topic
  /\ Kind(Len(oplog) - 4) = "telemetry"
  /\ Kind(Len(oplog)) = "state"

C18_StatePublishThenRotate ==
  /\ pc = "while" =>
       /\ StatePubCount = RotationCount
       /\ Cardinality(At("mint")) = RotationCount + 1
  /\ \A n \in Rotations : Kind(n - 1) = "mint" /\ Kind(n - 2) = "state"
  /\ \A n \in At("mint") : oplog[n].it >= 0 => Kind(n - 1) = "state"
  /\ \A n \in At("state") :
       n < Len(oplog) => Kind(n + 1) \in {"mint", "mint_raised"}
  /\ pc \in {"mint", "apply"} =>
       /\ Kind(Len(oplog)) \in {"state", "mint"}
       /\ password.iat < clock
  /\ pc = "apply" => jwtTmp.iat = clock /\ jwtTmp # password

C18_Witness ==
  /\ pc = "mint"
  /\ StatePubCount = 2
  /\ RotationCount = 1
  /\ Kind(Len(oplog)) = "state"
  /\ password.iat < clock

(***************************************************************************)
(* C20: main subscribes twice, once to each inbound topic, before the      *)
(* first telemetry publish, and never again: no callback, no re-opening of *)
(* the session by the network thread, no rotation and no loop iteration    *)
(* adds a subscribe call, so the number of subscribe calls stays 2.        *)
(***************************************************************************)
C20_SubscribedOnce ==
  /\ \A n \in At("subscribe") : oplog[n].it = -1
  /\ \A n, m \in At("subscribe") : n # m => SubOf(n) # SubOf(m)
  /\ Cardinality(At("subscribe")) <= 2
  /\ pc \in LoopPcs =>
       /\ Cardinality(At("subscribe")) = 2
       /\ Cardinality(subs) = 2

C20_Witness ==
  /\ pc = "sleep"
  /\ RotationCount = 1
  /\ connState = "connecting"
  /\ console = "on_disconnect"
  /\ Cardinality(At("subscribe")) = 2

=============================================================================
